---- MODULE Spec2Model ----
(***************************************************************************)
(* Model of the clock-drive engine of the CTW Nebenuhr firmware            *)
(* (src/src/main.cpp): the displayed/target minute pair, the 1 s           *)
(* convergence tick, the pulse generator advance(), the time refresh       *)
(* setCurrentTime(), the operator handlers of the web server and the       *)
(* persistence of the zone id.                                             *)
(*                                                                         *)
(* The firmware is single-threaded: loop() calls server.handleClient()     *)
(* and the three runEvery<> tasks one after the other, and advance()       *)
(* blocks until its pulse is over.  Every handler is therefore one atomic  *)
(* action, and every state with pc = "loop" is a tick boundary.  The       *)
(* order in which the tasks become due depends on millis() and on how      *)
(* long the handlers take, so the actions interleave freely.               *)
(*                                                                         *)
(* Of globalStats the magic number, the reboot counter and the zone id     *)
(* are modelled; the uptime counters, which the clock drive never reads,   *)
(* are left out.                                                           *)
(***************************************************************************)
EXTENDS Integers, Sequences, FiniteSets, TLC

(***************************************************************************)
(* Program constants                                                       *)
(***************************************************************************)
\* minutes of a day: the literal 1440 of advance(), the tick and handleSet
MinutesPerDay == 1440
\* the tick tolerates a display that is ahead by at most this many minutes
AheadTolerance == 10
\* uint8_t STEPS[] of advance(): the soft-start ramp
STEPS == <<0, 4, 8, 16, 32, 64, 128, 192, 255>>
\* pin levels: digitalWrite(HIGH) is full scale of the 8 bit duty register
HIGH == 255
LOW == 0
\* EEPROM_MAGIC_NUMBER; the 32 bit words of the record that exceed the
\* integers of the model checker are written as strings
EEPROM_MAGIC_NUMBER == "0xdeadbeef"
\* an erased flash word read as uint32_t
ErasedWord == "0xffffffff"
\* the zone id read from an erased record (0xffffffff): no id of the registry
ErasedZoneId == -1

(***************************************************************************)
(* The zone registry (zonedbx::kZoneRegistry) is reduced to two zones,     *)
(* given by their UTC offset in minutes.  Registry index i (0-based) holds *)
(* the zone with id i + 1; id 0 is no zone.  A TimeZone value is the id of *)
(* its zone, or ErrorZone for the value createForZone...() returns when    *)
(* the lookup fails (TimeZone::isError()).                                 *)
(***************************************************************************)
\* index 0: Europe/Berlin (UTC+1), index 1: Europe/Helsinki (UTC+2)
kZoneRegistry == <<60, 120>>
kZoneRegistrySize == Len(kZoneRegistry)
kZoneIdEurope_Berlin == 1
ErrorZone == 0
\* setupSntp() restarts the firmware after this many milliseconds without a time
REBOOT_TIMEOUT_MILLIS == 5000

(***************************************************************************)
(* Bounds of the model                                                     *)
(***************************************************************************)
\* number of steps of the wall clock after boot (two steps are one minute)
MaxElapsed == 10
\* number of steps the wall clock may make between two time refreshes
MaxStale == 1
\* the pulse counter of the running episode saturates here
MaxPulses == 1445
\* number of steps of the wall clock in the runs with out-of-range input
FormMaxElapsed == 3

\* Around midnight: the firmware boots at 23:58 or at 00:00 in Berlin (given
\* as the UTC minute of day)
StartTimes == {1378, 1380}
\* and the operator's POST /set requests <<hour, minute, zone index>> are
SetInputs == { <<23, 59, 0>>, <<23, 50, 0>> }
\* In the morning: the firmware boots at 10:00 in Berlin
DayStartTimes == {540}
DaySetInputs == { <<10, 0, 1>>, <<10, 5, 0>>, <<13, 20, 0>> }

\* width in bits of the millisecond counter in the runs of the periodic
\* scheduler (unsigned long in the firmware)
MillisBits == 6
\* and the period T of the task runEvery<T> schedules there, in milliseconds
RunPeriod == 10

\* Statement by statement: the firmware boots at 10:00 in Berlin and the
\* operator sets 09:58 (two pulses to come), 10:01 and 13:20 (a rebase)
LoopInputs == { <<9, 58, 0>>, <<10, 1, 0>>, <<13, 20, 0>> }

\* Restarts: the firmware boots at 10:00 in Berlin with one of three stored
\* records (erased; a valid marker with a zone id that does not resolve; a
\* valid marker with Helsinki), and the operator sets 10:00 with the zone
\* index of Berlin, of Helsinki and one past the end of the registry
StoredRecords ==
    { [magicNumber |-> ErasedWord, reboots |-> 65535, zoneId |-> ErasedZoneId],
      [magicNumber |-> EEPROM_MAGIC_NUMBER, reboots |-> 0, zoneId |-> 99],
      [magicNumber |-> EEPROM_MAGIC_NUMBER, reboots |-> 0, zoneId |-> 2] }
BootInputs == { <<10, 0, 0>>, <<10, 0, 1>>, <<10, 0, 2>> }
\* what one pass of the wait loop of setupSntp() takes: delay(500) and the
\* statements around it, in milliseconds
SntpDelays == {500, 700}
\* power cycles are explored while the stored reboot counter is below this
MaxReboots == 2

\* Operator input outside the form's ranges: the firmware boots at 23:58 in
\* Berlin, and the requests are 00:03 (just across midnight), 24:00, 00:75,
\* hour -1, and 23:59 with a zone index past the end of the registry
FormStartTimes == {1378}
FormInputs == { <<0, 3, 0>>, <<24, 0, 0>>, <<0, 75, 0>>, <<-1, 0, 0>>, <<23, 59, 2>> }

VARIABLES
    pc,                     \* "boot" before setup() has run, then "loop"
    currentDisplayedTime,   \* int16_t: minute the physical clock shows
    currentTime,            \* int16_t: target minute of the last refresh
    localZone,              \* TimeZone used by setCurrentTime()
    globalStats,            \* statistics_t in RAM: magicNumber, reboots, zoneId
    eeprom,                 \* the record stored at STATS_ADDRESS
    OUT1, OUT2,             \* level of the two drive pins
    utcMinute, second,      \* the wall clock: time(nullptr), as minute of day and second
    elapsed,                \* steps the wall clock made since boot
    stale,                  \* steps the wall clock made since the last time refresh
    response,               \* what the latest step sent to an HTTP client
    emitted,                \* pulses emitted by the latest step
    wave,                   \* pin writes <<OUT1, OUT2>> of the latest step
    lastLine,               \* line ramped by the most recent pulse, "none" before the first
    prevLine,               \* line ramped by the pulse before that one
    overridden,             \* handleSet ran since the most recent pulse
    overriddenBetween,      \* handleSet ran between the two most recent pulses
    settled,                \* the display has shown the target since the last handleSet
    run,                    \* the running episode, see NewRun
    lastSetZone,            \* zone id the latest successful handleSet persisted, 0 before the first
    at,                     \* the statement of loop() the firmware stands at
    step,                   \* inside advance(): the pin writes done, 0 outside
    timeValid,              \* time(nullptr) >= EPOCH_2000_01_01
    sntpWaited,             \* nowMillis - startMillis of setupSntp()
    millis,                 \* the millisecond counter, MillisBits wide
    lastMillis,             \* the static lastMillis of one runEvery<T>
    sinceFired,             \* milliseconds since that task last ran
    rebased                 \* the tracker was rebased and no pulse or handleSet came since

vars == << pc, currentDisplayedTime, currentTime, localZone, globalStats, eeprom,
           OUT1, OUT2, utcMinute, second, elapsed, stale, response, emitted, wave,
           lastLine, prevLine, overridden, overriddenBetween, settled, run,
           lastSetZone, at, step, timeValid, sntpWaited, millis, lastMillis,
           sinceFired, rebased >>
\* the variables of the finer-grained views of setup() and loop(): the steps
\* that take a whole handler at once leave them alone
fine == << at, step, timeValid, sntpWaited, millis, lastMillis, sinceFired >>

(***************************************************************************)
(* C++ integer arithmetic                                                  *)
(***************************************************************************)
\* a % b of C++ for b > 0: the result has the sign of a
CRem(a, b) == IF a >= 0 THEN a % b ELSE -((-a) % b)
\* a / b of C++ for b > 0: truncation toward zero
CDiv(a, b) == IF a >= 0 THEN a \div b ELSE -((-a) \div b)
\* conversion to int16_t
Int16(x) == ((x + 32768) % 65536) - 32768

(***************************************************************************)
(* Zone manager and time source                                            *)
(***************************************************************************)
\* zoneManager.createForZoneIndex(idx)
createForZoneIndex(idx) ==
    IF idx >= 0 /\ idx < kZoneRegistrySize THEN idx + 1 ELSE ErrorZone
\* zoneManager.createForZoneId(id)
createForZoneId(id) ==
    IF id >= 1 /\ id <= kZoneRegistrySize THEN id ELSE ErrorZone
\* TimeZone::isError()
isError(tz) == tz = ErrorZone

\* ZonedDateTime::forUnixSeconds64(time(nullptr), tz): the local hour, minute
\* and second.  With an error zone the date-time is the error value, whose
\* fields all read 255.
ZonedDateTime(utc, sec, tz) ==
    IF isError(tz)
    THEN [hour |-> 255, minute |-> 255, second |-> 255]
    ELSE LET local == (utc + kZoneRegistry[tz]) % MinutesPerDay
         IN  [hour |-> local \div 60, minute |-> local % 60, second |-> sec]

\* the value setCurrentTime() leaves in currentTime
setCurrentTime(utc, sec, tz) ==
    LET zonedDateTime == ZonedDateTime(utc, sec, tz)
        base == Int16(zonedDateTime.minute + zonedDateTime.hour * 60)
    IN  IF zonedDateTime.second = 59 THEN Int16(base + 1) ELSE base

(***************************************************************************)
(* Pulse generator and position tracker: advance()                         *)
(***************************************************************************)
\* variant: the line is chosen by the test "is odd", d % 2 == 1, with the
\* branches swapped (C++ remainder: -1 % 2 is -1)
RampOddTest(d) ==
    [x \in 1..Len(STEPS) |->
        IF CRem(d, 2) = 1 THEN <<HIGH, 255 - STEPS[x]>>
                          ELSE <<255 - STEPS[x], HIGH>>]
\* variant: the line is chosen by the parity of the minute after the pulse
RampAfterIncrement(d) ==
    [x \in 1..Len(STEPS) |->
        IF CRem(d + 1, 2) = 0 THEN <<255 - STEPS[x], HIGH>>
                              ELSE <<HIGH, 255 - STEPS[x]>>]
\* the pin writes <<OUT1, OUT2>> of the ramp loop, one per entry of STEPS
Ramp(d) ==
    [x \in 1..Len(STEPS) |->
        IF CRem(d, 2) = 0 THEN <<255 - STEPS[x], HIGH>>
                          ELSE <<HIGH, 255 - STEPS[x]>>]
\* all pin writes of one advance(): the ramp, then both pins LOW
PulseWave(d) == Ramp(d) \o << <<LOW, LOW>> >>
\* variant: currentDisplayedTime++ without the midnight rollover
IncrementedNoRollover(d) == Int16(d + 1)
\* the tracker after the pulse: currentDisplayedTime++ with the midnight rollover
Incremented(d) ==
    LET n == Int16(d + 1)
    IN  IF n >= MinutesPerDay THEN Int16(n - MinutesPerDay) ELSE n

\* the line a recorded pulse ramped: the pin whose written level changes
\* between the first and the last step of the ramp
RampedLine(w) ==
    IF w[1][1] # w[Len(STEPS)][1] THEN "OUT1"
    ELSE IF w[1][2] # w[Len(STEPS)][2] THEN "OUT2"
    ELSE "none"
\* the line held at one level through the ramp, and that level
HeldLevel(w, line) ==
    LET i == IF line = "OUT1" THEN 1 ELSE 2
    IN  IF \A x \in 1..Len(STEPS) : w[x][i] = w[1][i] THEN w[1][i] ELSE -1

(***************************************************************************)
(* Convergence controller: the lambda of runEvery<1000>                    *)
(***************************************************************************)
\* variant: the chain without its idle cases: a display that is not behind
\* the target is rebased, a display on the target included
DecideNoIdle(d, t) ==
    IF d < t THEN "advance" ELSE "rebase"
\* variant: the chain without the tolerance: any display ahead is rebased
DecideNoTolerance(d, t) ==
    IF d = t THEN "idle"
    ELSE IF d < t THEN "advance"
    ELSE "rebase"
\* variant: the rebase is taken whenever the display is off by more than the
\* tolerance, behind as well as ahead
DecideFarOff(d, t) ==
    IF d = t THEN "idle"
    ELSE IF d > t + AheadTolerance \/ d + AheadTolerance < t THEN "rebase"
    ELSE IF d < t THEN "advance"
    ELSE "idle"
\* which branch of the if / else if chain runs
Decide(d, t) ==
    IF d = t THEN "idle"
    ELSE IF d < t THEN "advance"
    ELSE IF d > t + AheadTolerance THEN "rebase"
    ELSE "idle"
\* variant: a tick catches up two minutes when the display is that far behind
TickPulsesCatchUp(d, t) ==
    IF Decide(d, t) = "advance" THEN (IF t - d >= 2 THEN 2 ELSE 1) ELSE 0
\* number of advance() calls the lambda makes
TickPulses(d, t) == IF Decide(d, t) = "advance" THEN 1 ELSE 0
\* the tracker after k calls of advance()
RECURSIVE AdvanceTimes(_, _)
AdvanceTimes(d, k) == IF k = 0 THEN d ELSE AdvanceTimes(Incremented(d), k - 1)
\* the pin writes of k calls of advance()
RECURSIVE WaveTimes(_, _)
WaveTimes(d, k) ==
    IF k = 0 THEN <<>> ELSE PulseWave(d) \o WaveTimes(Incremented(d), k - 1)
\* variant: the rebase takes half a day, one turn of the dial, off the tracker
RebasedHalfDay(d) == Int16(d - MinutesPerDay \div 2)
\* the tracker after the rebase branch
Rebased(d) == Int16(d - MinutesPerDay)

(***************************************************************************)
(* Operator interface                                                      *)
(***************************************************************************)
\* handleSet: the tracker value computed from the form fields
SetValue(hour, minute) == Int16(CRem(hour * 60 + minute, MinutesPerDay))
\* variant: the hour and minute taken from the tracker as it is, without
\* the day added first
RootHourNoOffset(d) == CRem(CDiv(d, 60), 24)
\* handleRoot: the hour and minute rendered into the page
RootHour(d) == CRem(CDiv(MinutesPerDay + d, 60), 24)
RootMinute(d) == CRem(MinutesPerDay + d, 60)

NoResponse == [code |-> 0]

(***************************************************************************)
(* Episodes (history): an episode starts at boot, at an operator override  *)
(* and when the target changes while the display shows the target or has   *)
(* not moved yet.  It records the displayed minute and the target it       *)
(* started with and counts the pulses, the rebases and the ticks that      *)
(* found the display behind or far ahead.  It ends (Untracked) when the    *)
(* target changes while the display is on its way.                         *)
(***************************************************************************)
NewRun(d, t) ==
    [from |-> d, target |-> t, pulses |-> 0, ticks |-> 0, rebases |-> 0,
     stable |-> TRUE]
Sat(n) == IF n > MaxPulses THEN MaxPulses ELSE n
\* the episode once the target changed under a display on its way
Untracked ==
    [from |-> 0, target |-> 0, pulses |-> 0, ticks |-> 0, rebases |-> 0,
     stable |-> FALSE]
RunAfterTick(r, branch, k) ==
    IF ~r.stable THEN r
    ELSE [r EXCEPT !.pulses = Sat(@ + k),
                   !.ticks = IF branch # "idle" THEN Sat(@ + 1) ELSE @,
                   !.rebases = IF branch = "rebase" THEN Sat(@ + 1) ELSE @]
RunAfterRefresh(r, d, old, new) ==
    IF new = old THEN r
    ELSE IF d = old \/ (r.stable /\ r.pulses = 0 /\ r.rebases = 0) THEN NewRun(d, new)
    ELSE Untracked

(***************************************************************************)
(* Persistence: readFromEEProm()                                           *)
(***************************************************************************)
\* globalStats after the magic number check
StatsChecked(e) ==
    IF e.magicNumber # EEPROM_MAGIC_NUMBER
    THEN [magicNumber |-> EEPROM_MAGIC_NUMBER, reboots |-> 0,
          zoneId |-> kZoneIdEurope_Berlin]
    ELSE e
\* variant: the stored zone id is taken without the fallback
StatsLoadedAsStored(e) == StatsChecked(e)
\* globalStats after the zone of the record has been resolved
StatsLoaded(e) ==
    IF isError(createForZoneId(StatsChecked(e).zoneId))
    THEN [StatsChecked(e) EXCEPT !.zoneId = kZoneIdEurope_Berlin]
    ELSE StatsChecked(e)
\* an erased EEPROM
ErasedRecord == [magicNumber |-> ErasedWord, reboots |-> 65535, zoneId |-> ErasedZoneId]

(***************************************************************************)
(* Initial state: the globals as their initialisers leave them, the        *)
(* persisted record erased, the wall clock at one of the start times.      *)
(***************************************************************************)
BootWith(starts, stored) ==
    /\ pc = "boot"
    /\ currentDisplayedTime = 9 * 60 + 44
    /\ currentTime = 9 * 60 + 44
    /\ localZone = createForZoneId(kZoneIdEurope_Berlin)
    /\ globalStats = [magicNumber |-> "0x00000000", reboots |-> 0, zoneId |-> 0]
    /\ eeprom \in { [flash |-> r, buffer |-> r] : r \in stored }
    /\ OUT1 = LOW
    /\ OUT2 = LOW
    /\ utcMinute \in starts
    /\ second = 0
    /\ elapsed = 0
    /\ stale = 0
    /\ response = NoResponse
    /\ emitted = 0
    /\ wave = <<>>
    /\ lastLine = "none"
    /\ prevLine = "none"
    /\ overridden = FALSE
    /\ overriddenBetween = FALSE
    /\ settled = TRUE
    /\ run = NewRun(9 * 60 + 44, 9 * 60 + 44)
    /\ lastSetZone = 0
    /\ rebased = FALSE

BootRam(starts) == BootWith(starts, {ErasedRecord})

\* the same with the finer-grained views at rest
Boot(starts) ==
    /\ BootRam(starts)
    /\ at = "handleClient"
    /\ step = 0
    /\ timeValid = TRUE
    /\ sntpWaited = 0
    /\ millis = 0
    /\ lastMillis = 0
    /\ sinceFired = 0

Init == Boot(StartTimes)
InitDay == Boot(DayStartTimes)

(***************************************************************************)
(* setup(): load the record, drive both pins low, count the boot, wait for *)
(* the time source (which delivers a time), take the first reading and     *)
(* assume the clock shows it.                                              *)
(***************************************************************************)
Setup ==
    /\ pc = "boot"
    /\ LET loaded == StatsLoaded(eeprom.buffer)
           counted == [loaded EXCEPT !.reboots = (@ + 1) % 65536]
           zone == createForZoneId(loaded.zoneId)
           now == setCurrentTime(utcMinute, second, zone)
       IN  /\ localZone' = zone
           /\ globalStats' = counted
           \* readFromEEProm commits the loaded record, line 398 only puts
           /\ eeprom' = [flash |-> loaded, buffer |-> counted]
           /\ currentTime' = now
           /\ currentDisplayedTime' = now
           /\ run' = NewRun(now, now)
    /\ OUT1' = LOW
    /\ OUT2' = LOW
    /\ pc' = "loop"
    /\ response' = NoResponse
    /\ emitted' = 0
    /\ wave' = << <<LOW, LOW>> >>
    /\ stale' = 0
    /\ settled' = TRUE
    /\ UNCHANGED << utcMinute, second, elapsed, lastLine, prevLine, overridden,
                    overriddenBetween, lastSetZone >>
    /\ UNCHANGED fine
    /\ rebased' = FALSE

(***************************************************************************)
(* loop(): the convergence tick, runEvery<1000>                            *)
(***************************************************************************)
ConvergenceTick ==
    /\ pc = "loop"
    /\ LET branch == Decide(currentDisplayedTime, currentTime)
           k == TickPulses(currentDisplayedTime, currentTime)
           w == WaveTimes(currentDisplayedTime, k)
           \* the line ramped by the i-th pulse of this tick
           line(i) == RampedLine(SubSeq(w, (i - 1) * (Len(STEPS) + 1) + 1,
                                           i * (Len(STEPS) + 1)))
       IN  /\ currentDisplayedTime' =
                 IF branch = "rebase" THEN Rebased(currentDisplayedTime)
                 ELSE AdvanceTimes(currentDisplayedTime, k)
           /\ emitted' = k
           /\ wave' = w
           /\ OUT1' = IF k > 0 THEN w[Len(w)][1] ELSE OUT1
           /\ OUT2' = IF k > 0 THEN w[Len(w)][2] ELSE OUT2
           /\ lastLine' = IF k > 0 THEN line(k) ELSE lastLine
           /\ prevLine' = IF k > 1 THEN line(k - 1)
                          ELSE IF k = 1 THEN lastLine ELSE prevLine
           /\ overridden' = IF k > 0 THEN FALSE ELSE overridden
           /\ overriddenBetween' = IF k > 1 THEN FALSE
                                   ELSE IF k = 1 THEN overridden ELSE overriddenBetween
           /\ run' = RunAfterTick(run, branch, k)
    /\ settled' = (settled \/ currentDisplayedTime' = currentTime)
    /\ response' = NoResponse
    /\ UNCHANGED << pc, currentTime, localZone, globalStats, eeprom,
                    utcMinute, second, elapsed, stale, lastSetZone >>
    /\ UNCHANGED fine
    /\ rebased' = IF Decide(currentDisplayedTime, currentTime) = "rebase" THEN TRUE
                   ELSE IF emitted' > 0 THEN FALSE ELSE rebased

(***************************************************************************)
(* variant of the time refresh: it also sets the tracker to the new target *)
(***************************************************************************)
HousekeepingSyncsDisplay ==
    /\ pc = "loop"
    /\ currentTime' = setCurrentTime(utcMinute, second, localZone)
    /\ currentDisplayedTime' = currentTime'
    /\ run' = NewRun(currentTime', currentTime')
    /\ stale' = 0
    /\ settled' = TRUE
    /\ response' = NoResponse
    /\ emitted' = 0
    /\ wave' = <<>>
    /\ UNCHANGED << pc, localZone, globalStats, eeprom,
                    OUT1, OUT2, utcMinute, second, elapsed, lastLine, prevLine,
                    overridden, overriddenBetween, lastSetZone >>
    /\ UNCHANGED fine
    /\ UNCHANGED rebased

(***************************************************************************)
(* loop(): time refresh and housekeeping, runEvery<500>                    *)
(***************************************************************************)
Housekeeping ==
    /\ pc = "loop"
    /\ currentTime' = setCurrentTime(utcMinute, second, localZone)
    /\ run' = RunAfterRefresh(run, currentDisplayedTime, currentTime, currentTime')
    /\ stale' = 0
    /\ settled' = (settled \/ currentDisplayedTime = currentTime')
    /\ response' = NoResponse
    /\ emitted' = 0
    /\ wave' = <<>>
    /\ UNCHANGED << pc, currentDisplayedTime, localZone, globalStats, eeprom,
                    OUT1, OUT2, utcMinute, second, elapsed, lastLine, prevLine,
                    overridden, overriddenBetween, lastSetZone >>
    /\ UNCHANGED fine
    /\ UNCHANGED rebased

(***************************************************************************)
(* loop(): the persistence snapshot, runEvery<1000 * 15 * 60>              *)
(***************************************************************************)
PersistenceSnapshot ==
    /\ pc = "loop"
    /\ eeprom' = [flash |-> globalStats, buffer |-> globalStats]
    /\ response' = NoResponse
    /\ emitted' = 0
    /\ wave' = <<>>
    /\ UNCHANGED << pc, currentDisplayedTime, currentTime, localZone, globalStats,
                    OUT1, OUT2, utcMinute, second, elapsed, stale, lastLine,
                    prevLine, overridden, overriddenBetween, settled, run,
                    lastSetZone >>
    /\ UNCHANGED fine
    /\ UNCHANGED rebased

(***************************************************************************)
(* server.handleClient(): GET /                                            *)
(***************************************************************************)
HandleRoot ==
    /\ pc = "loop"
    /\ response' = [code |-> 200, hour |-> RootHour(currentDisplayedTime),
                    minute |-> RootMinute(currentDisplayedTime)]
    /\ emitted' = 0
    /\ wave' = <<>>
    /\ UNCHANGED << pc, currentDisplayedTime, currentTime, localZone, globalStats,
                    eeprom, OUT1, OUT2, utcMinute, second, elapsed, stale, lastLine,
                    prevLine, overridden, overriddenBetween, settled, run,
                    lastSetZone >>
    /\ UNCHANGED fine
    /\ UNCHANGED rebased

(***************************************************************************)
(* server.handleClient(): POST /set                                        *)
(***************************************************************************)
HandleSet(hour, minute, zoneIdx) ==
    /\ pc = "loop"
    /\ currentDisplayedTime' = SetValue(hour, minute)
    /\ localZone' = createForZoneIndex(zoneIdx)
    /\ IF ~isError(localZone')
       THEN /\ globalStats' = [globalStats EXCEPT !.zoneId = localZone']
            /\ eeprom' = [flash |-> globalStats', buffer |-> globalStats']
            /\ lastSetZone' = localZone'
       ELSE UNCHANGED << globalStats, eeprom, lastSetZone >>
    /\ response' = [code |-> 302]
    /\ emitted' = 0
    /\ wave' = <<>>
    /\ overridden' = TRUE
    /\ settled' = (currentDisplayedTime' = currentTime)
    /\ run' = NewRun(currentDisplayedTime', currentTime)
    /\ UNCHANGED << pc, currentTime, OUT1, OUT2, utcMinute, second, elapsed, stale,
                    lastLine, prevLine, overriddenBetween >>
    /\ UNCHANGED fine
    /\ rebased' = FALSE

(***************************************************************************)
(* The wall clock moves on to the next instant at which a reading differs: *)
(* from a second below 59 to second 59, from second 59 to the next minute. *)
(* It runs before setup() as well: the firmware boots at any instant.      *)
(***************************************************************************)
ClockAdvanceWithin(max) ==
    /\ elapsed < max
    /\ pc = "loop" => stale < MaxStale
    /\ elapsed' = elapsed + 1
    /\ stale' = IF pc = "loop" THEN stale + 1 ELSE stale
    /\ IF second = 59
       THEN /\ second' = 0
            /\ utcMinute' = (utcMinute + 1) % MinutesPerDay
       ELSE /\ second' = 59
            /\ utcMinute' = utcMinute
    /\ response' = NoResponse
    /\ emitted' = 0
    /\ wave' = <<>>
    /\ UNCHANGED << pc, currentDisplayedTime, currentTime, localZone, globalStats,
                    eeprom, OUT1, OUT2, lastLine, prevLine, overridden,
                    overriddenBetween, settled, run, lastSetZone >>
    /\ UNCHANGED fine
    /\ UNCHANGED rebased

ClockAdvance == ClockAdvanceWithin(MaxElapsed)

Next ==
    \/ Setup
    \/ ConvergenceTick
    \/ Housekeeping
    \/ PersistenceSnapshot
    \/ HandleRoot
    \/ \E in \in SetInputs : HandleSet(in[1], in[2], in[3])
    \/ ClockAdvance

Spec == Init /\ [][Next]_vars

NextDay ==
    \/ Setup
    \/ ConvergenceTick
    \/ Housekeeping
    \/ PersistenceSnapshot
    \/ HandleRoot
    \/ \E in \in DaySetInputs : HandleSet(in[1], in[2], in[3])
    \/ ClockAdvance

SpecDay == InitDay /\ [][NextDay]_vars

InitForm == Boot(FormStartTimes)
NextForm ==
    \/ Setup
    \/ ConvergenceTick
    \/ Housekeeping
    \/ PersistenceSnapshot
    \/ HandleRoot
    \/ \E in \in FormInputs : HandleSet(in[1], in[2], in[3])
    \/ ClockAdvanceWithin(FormMaxElapsed)

SpecForm == InitForm /\ [][NextForm]_vars

(***************************************************************************)
(* setup() in two parts around the wait loop of setupSntp(), and restarts. *)
(* timeValid is the test time(nullptr) >= EPOCH_2000_01_01: false from     *)
(* reset until the SNTP client has set the system time.  The wall clock    *)
(* stands still here, so the reading setup() took stays the target.        *)
(***************************************************************************)
\* setup() up to the call of setupSntp(): readFromEEProm(), the pins, the
\* reboot counter; setupSntp() up to startMillis = millis()
SetupBegin ==
    /\ pc = "boot"
    /\ LET loaded == StatsLoaded(eeprom.buffer)
           counted == [loaded EXCEPT !.reboots = (@ + 1) % 65536]
       IN  /\ localZone' = createForZoneId(loaded.zoneId)
           /\ globalStats' = counted
           /\ eeprom' = [flash |-> loaded, buffer |-> counted]
    /\ OUT1' = LOW
    /\ OUT2' = LOW
    /\ pc' = "sntp"
    /\ sntpWaited' = 0
    /\ response' = NoResponse
    /\ emitted' = 0
    /\ wave' = << <<LOW, LOW>> >>
    /\ UNCHANGED << currentDisplayedTime, currentTime, utcMinute, second, elapsed,
                    stale, lastLine, prevLine, overridden, overriddenBetween,
                    settled, run, lastSetZone, at, step, timeValid, millis,
                    lastMillis, sinceFired >>
    /\ UNCHANGED rebased

\* variant: the timeout of the wait is taken in seconds
sntpTimedOutInSeconds(waited) == waited >= REBOOT_TIMEOUT_MILLIS * 1000
\* the timeout test of the wait loop
sntpTimedOut(waited) == waited >= REBOOT_TIMEOUT_MILLIS

\* the SNTP client sets the system time; configTime() has started it
SntpSync ==
    /\ pc = "sntp"
    /\ ~timeValid
    /\ timeValid' = TRUE
    /\ response' = NoResponse
    /\ emitted' = 0
    /\ wave' = <<>>
    /\ UNCHANGED << pc, currentDisplayedTime, currentTime, localZone, globalStats,
                    eeprom, OUT1, OUT2, utcMinute, second, elapsed, stale, lastLine,
                    prevLine, overridden, overriddenBetween, settled, run,
                    lastSetZone, at, step, sntpWaited, millis, lastMillis,
                    sinceFired >>
    /\ UNCHANGED rebased

\* a pass of the wait loop that finds a time: setupSntp() returns, setup()
\* takes the first reading and assumes the clock shows it
SntpDone ==
    /\ pc = "sntp"
    /\ timeValid
    /\ LET now == setCurrentTime(utcMinute, second, localZone)
       IN  /\ currentTime' = now
           /\ currentDisplayedTime' = now
           /\ run' = NewRun(now, now)
    /\ pc' = "loop"
    /\ response' = NoResponse
    /\ emitted' = 0
    /\ wave' = <<>>
    /\ stale' = 0
    /\ settled' = TRUE
    /\ UNCHANGED << localZone, globalStats, eeprom, OUT1, OUT2, utcMinute, second,
                    elapsed, lastLine, prevLine, overridden, overriddenBetween,
                    lastSetZone, at, step, timeValid, sntpWaited, millis,
                    lastMillis, sinceFired >>
    /\ rebased' = FALSE

\* a pass of the wait loop that finds no time and goes on waiting
SntpWait ==
    /\ pc = "sntp"
    /\ ~timeValid
    /\ ~sntpTimedOut(sntpWaited)
    /\ \E d \in SntpDelays : sntpWaited' = sntpWaited + d
    /\ response' = NoResponse
    /\ emitted' = 0
    /\ wave' = <<>>
    /\ UNCHANGED << pc, currentDisplayedTime, currentTime, localZone, globalStats,
                    eeprom, OUT1, OUT2, utcMinute, second, elapsed, stale, lastLine,
                    prevLine, overridden, overriddenBetween, settled, run,
                    lastSetZone, at, step, timeValid, millis, lastMillis,
                    sinceFired >>
    /\ UNCHANGED rebased

\* the firmware starts again: the globals get their initialisers, the
\* EEPROM buffer is loaded from the flash, the system time is lost
Restarted ==
    /\ pc' = "boot"
    /\ currentDisplayedTime' = 9 * 60 + 44
    /\ currentTime' = 9 * 60 + 44
    /\ localZone' = createForZoneId(kZoneIdEurope_Berlin)
    /\ globalStats' = [magicNumber |-> "0x00000000", reboots |-> 0, zoneId |-> 0]
    /\ eeprom' = [flash |-> eeprom.flash, buffer |-> eeprom.flash]
    /\ OUT1' = LOW
    /\ OUT2' = LOW
    /\ stale' = 0
    /\ response' = NoResponse
    /\ emitted' = 0
    /\ wave' = <<>>
    /\ lastLine' = "none"
    /\ prevLine' = "none"
    /\ overridden' = FALSE
    /\ overriddenBetween' = FALSE
    /\ settled' = TRUE
    /\ run' = NewRun(9 * 60 + 44, 9 * 60 + 44)
    /\ at' = "handleClient"
    /\ step' = 0
    /\ timeValid' = FALSE
    /\ UNCHANGED << utcMinute, second, elapsed, lastSetZone, sntpWaited, millis,
                    lastMillis, sinceFired >>
    /\ rebased' = FALSE

\* a pass of the wait loop that finds no time after the timeout: ESP.reset()
SntpTimeout ==
    /\ pc = "sntp"
    /\ ~timeValid
    /\ sntpTimedOut(sntpWaited)
    /\ Restarted

\* the power fails and returns, or the reset button is pressed
PowerCycle ==
    /\ pc = "loop"
    /\ eeprom.flash.reboots < MaxReboots
    /\ Restarted

InitBoot ==
    /\ BootWith(DayStartTimes, StoredRecords)
    /\ at = "handleClient"
    /\ step = 0
    /\ timeValid = FALSE
    /\ sntpWaited = 0
    /\ millis = 0
    /\ lastMillis = 0
    /\ sinceFired = 0

SntpPass == SntpDone \/ SntpWait \/ SntpTimeout

NextBoot ==
    \/ SetupBegin
    \/ SntpSync
    \/ SntpDone
    \/ SntpWait
    \/ SntpTimeout
    \/ PowerCycle
    \/ ConvergenceTick
    \/ PersistenceSnapshot
    \/ \E in \in BootInputs : HandleSet(in[1], in[2], in[3])

\* the wait loop is a loop of the one thread: it goes on to its next pass
SpecBoot == InitBoot /\ [][NextBoot]_vars /\ WF_vars(SntpPass)

(***************************************************************************)
(* loop() statement by statement.  `at' is the statement the firmware      *)
(* stands at: server.handleClient(), the three runEvery<> calls, or        *)
(* inside advance(), where `step' counts the pin writes done.  advance()   *)
(* waits with delay(), which lets the network stack run but returns to     *)
(* advance(): the request handlers run inside server.handleClient() only.  *)
(* A task that is not due is passed by (Proceeds).                         *)
(***************************************************************************)
\* variant: the handlers also run while advance() waits in delay()
ServingClientInDelay == at = "handleClient" \/ at = "advance"
\* the statement at which the request handlers run
ServingClient == at = "handleClient"

ServeRoot == ServingClient /\ HandleRoot
ServeSet(hour, minute, zoneIdx) == ServingClient /\ HandleSet(hour, minute, zoneIdx)
RunHousekeeping == at = "housekeeping" /\ Housekeeping
RunSnapshot == at = "snapshot" /\ PersistenceSnapshot

\* the statement after a call that has returned or was not due
Proceeds ==
    /\ pc = "loop"
    /\ at \in {"handleClient", "housekeeping", "snapshot"}
    /\ at' = CASE at = "handleClient" -> "tick"
                [] at = "housekeeping" -> "snapshot"
                [] at = "snapshot" -> "handleClient"
    /\ UNCHANGED << pc, currentDisplayedTime, currentTime, localZone, globalStats,
                    eeprom, OUT1, OUT2, utcMinute, second, elapsed, stale, response,
                    emitted, wave, lastLine, prevLine, overridden, overriddenBetween,
                    settled, run, lastSetZone, step, timeValid, sntpWaited, millis,
                    lastMillis, sinceFired >>
    /\ UNCHANGED rebased

\* runEvery<1000>: the lambda runs (due) or not; it idles, enters advance()
\* or rebases
TickStep ==
    /\ pc = "loop"
    /\ at = "tick"
    /\ \E due \in BOOLEAN :
          LET branch == IF due THEN Decide(currentDisplayedTime, currentTime)
                        ELSE "idle"
          IN  /\ at' = IF branch = "advance" THEN "advance" ELSE "housekeeping"
              /\ currentDisplayedTime' =
                    IF branch = "rebase" THEN Rebased(currentDisplayedTime)
                    ELSE currentDisplayedTime
              /\ run' = IF branch = "rebase"
                        THEN RunAfterTick(run, branch, 0) ELSE run
    /\ step' = 0
    /\ emitted' = 0
    /\ wave' = <<>>
    /\ response' = NoResponse
    /\ UNCHANGED << pc, currentTime, localZone, globalStats, eeprom, OUT1, OUT2,
                    utcMinute, second, elapsed, stale, lastLine, prevLine,
                    overridden, overriddenBetween, settled, lastSetZone, timeValid,
                    sntpWaited, millis, lastMillis, sinceFired >>
    /\ rebased' = (rebased \/ currentDisplayedTime' # currentDisplayedTime)

\* advance(): one pass of the ramp loop, the parity test included
AdvanceRamp ==
    /\ pc = "loop"
    /\ at = "advance"
    /\ step < Len(STEPS)
    /\ LET pins == Ramp(currentDisplayedTime)[step + 1]
       IN  /\ OUT1' = pins[1]
           /\ OUT2' = pins[2]
           /\ wave' = Append(wave, pins)
    /\ step' = step + 1
    /\ response' = NoResponse
    /\ UNCHANGED << pc, currentDisplayedTime, currentTime, localZone, globalStats,
                    eeprom, utcMinute, second, elapsed, stale, emitted, lastLine,
                    prevLine, overridden, overriddenBetween, settled, run,
                    lastSetZone, at, timeValid, sntpWaited, millis, lastMillis,
                    sinceFired >>
    /\ UNCHANGED rebased

\* advance(): delay(200), then both pins LOW
AdvanceRelease ==
    /\ pc = "loop"
    /\ at = "advance"
    /\ step = Len(STEPS)
    /\ OUT1' = LOW
    /\ OUT2' = LOW
    /\ wave' = Append(wave, <<LOW, LOW>>)
    /\ step' = step + 1
    /\ response' = NoResponse
    /\ UNCHANGED << pc, currentDisplayedTime, currentTime, localZone, globalStats,
                    eeprom, utcMinute, second, elapsed, stale, emitted, lastLine,
                    prevLine, overridden, overriddenBetween, settled, run,
                    lastSetZone, at, timeValid, sntpWaited, millis, lastMillis,
                    sinceFired >>
    /\ UNCHANGED rebased

\* advance(): the tracker increment; advance() and the lambda return
AdvanceIncrement ==
    /\ pc = "loop"
    /\ at = "advance"
    /\ step = Len(STEPS) + 1
    /\ currentDisplayedTime' = Incremented(currentDisplayedTime)
    /\ at' = "housekeeping"
    /\ step' = 0
    /\ emitted' = 1
    /\ lastLine' = RampedLine(wave)
    /\ prevLine' = lastLine
    /\ overridden' = FALSE
    /\ overriddenBetween' = overridden
    /\ run' = RunAfterTick(run, "advance", 1)
    /\ settled' = (settled \/ currentDisplayedTime' = currentTime)
    /\ response' = NoResponse
    /\ UNCHANGED << pc, currentTime, localZone, globalStats, eeprom, OUT1, OUT2,
                    utcMinute, second, elapsed, stale, wave, lastSetZone, timeValid,
                    sntpWaited, millis, lastMillis, sinceFired >>
    /\ rebased' = FALSE

InitLoop == Boot(DayStartTimes)
NextLoop ==
    \/ Setup
    \/ ServeRoot
    \/ \E in \in LoopInputs : ServeSet(in[1], in[2], in[3])
    \/ Proceeds
    \/ TickStep
    \/ AdvanceRamp
    \/ AdvanceRelease
    \/ AdvanceIncrement
    \/ RunHousekeeping
    \/ RunSnapshot

SpecLoop == InitLoop /\ [][NextLoop]_vars

(***************************************************************************)
(* The periodic scheduler runEvery<T> on a millisecond counter of          *)
(* MillisBits bits.  loop() passes the call at any rate: a pass may come   *)
(* every millisecond or, behind a pulse or a slow handler, much later.     *)
(***************************************************************************)
MillisWrap == 2 ^ MillisBits
\* the test of runEvery: now >= lastMillis + T in unsigned arithmetic
runEveryDue(now, last, T) == now >= (last + T) % MillisWrap

\* one millisecond passes
MillisTick ==
    /\ pc = "loop"
    /\ millis' = (millis + 1) % MillisWrap
    /\ sinceFired' = IF sinceFired < MillisWrap THEN sinceFired + 1 ELSE sinceFired
    /\ UNCHANGED << pc, currentDisplayedTime, currentTime, localZone, globalStats,
                    eeprom, OUT1, OUT2, utcMinute, second, elapsed, stale, response,
                    emitted, wave, lastLine, prevLine, overridden, overriddenBetween,
                    settled, run, lastSetZone, at, step, timeValid, sntpWaited,
                    lastMillis >>
    /\ UNCHANGED rebased

\* one pass of loop() through runEvery<RunPeriod>(f) that runs f
RunEveryFires ==
    /\ pc = "loop"
    /\ runEveryDue(millis, lastMillis, RunPeriod)
    /\ lastMillis' = millis
    /\ sinceFired' = 0
    /\ UNCHANGED << pc, currentDisplayedTime, currentTime, localZone, globalStats,
                    eeprom, OUT1, OUT2, utcMinute, second, elapsed, stale, response,
                    emitted, wave, lastLine, prevLine, overridden, overriddenBetween,
                    settled, run, lastSetZone, at, step, timeValid, sntpWaited,
                    millis >>
    /\ UNCHANGED rebased

\* setup() ends at any value of the counter; the static lastMillis is
\* initialised with millis() by the first pass
InitMillis ==
    /\ BootRam(FormStartTimes)
    /\ at = "handleClient"
    /\ step = 0
    /\ timeValid = TRUE
    /\ sntpWaited = 0
    /\ millis \in 0..(MillisWrap - 1)
    /\ lastMillis = millis
    /\ sinceFired = 0

NextMillis ==
    \/ Setup
    \/ MillisTick
    \/ RunEveryFires

SpecMillis == InitMillis /\ [][NextMillis]_vars

(***************************************************************************)
(* Properties                                                              *)
(***************************************************************************)
\* d and e are the tracker before and after one advance(): plus one, and
\* back by a day once that reaches 1440
AdvancedByOne(d, e) ==
    IF d + 1 >= MinutesPerDay THEN e = d + 1 - MinutesPerDay ELSE e = d + 1

\* C1 as stated: at every tick boundary 0 <= DisplayedMinute < 1440.
C1_DisplayedMinuteInDay ==
    pc = "loop" => currentDisplayedTime >= 0 /\ currentDisplayedTime < MinutesPerDay
\* C1 amended: at every tick boundary -1440 < DisplayedMinute <= 1440; the
\* value is negative from a rebase until the following pulses have brought
\* it back to 0, and 1440 after a boot at second 59 of 23:59.
C1_DisplayedMinuteRange ==
    pc = "loop" =>
        /\ currentDisplayedTime > -MinutesPerDay
        /\ currentDisplayedTime <= MinutesPerDay
\* a tick boundary right after the rebase of a display that showed 23:59
C1_Witness ==
    /\ pc = "loop"
    /\ run.stable /\ run.from = 1439 /\ run.rebases = 1 /\ run.pulses = 0
    /\ currentDisplayedTime = -1

\* C2 as stated, its second half: once the display has shown the target and
\* the operator has not overridden it since, a pulse moves it only when the
\* target names another minute than the one displayed.
C2_SettledDisplayFollowsTarget ==
    [][(pc = "loop" /\ settled /\ ~isError(localZone) /\ emitted' > 0)
          => (currentDisplayedTime - currentTime) % MinutesPerDay # 0]_vars

\* C3 as stated: the lines of any two consecutive pulses differ.
C3_ConsecutivePulsesAlternate ==
    prevLine # "none" => lastLine # prevLine
\* C3 amended: the lines of two consecutive pulses differ when no operator
\* override came between them, whatever else did (idle ticks, a rebase, the
\* midnight wrap).
C3_PulsesAlternateWithoutOverride ==
    (prevLine # "none" /\ ~overriddenBetween) => lastLine # prevLine
\* the pulse of the midnight wrap (1439 -> 0) right after the pulse that
\* brought the display to 23:59
C3_Witness ==
    /\ prevLine # "none" /\ ~overriddenBetween
    /\ emitted = 1
    /\ run.stable /\ run.from = 1439 /\ run.rebases = 0 /\ run.pulses = 1
    /\ currentDisplayedTime = 0

\* C4 as stated: a pulse ramps OUT1 with OUT2 held high exactly when the
\* minute displayed after it is even, and OUT2 with OUT1 held high exactly
\* when that minute is odd.
C4_LineByMinuteAfterPulse ==
    emitted = 1 =>
        /\ RampedLine(wave) = "OUT1" <=> CRem(currentDisplayedTime, 2) = 0
        /\ RampedLine(wave) = "OUT2" <=> CRem(currentDisplayedTime, 2) # 0
\* C4 amended: a pulse ramps OUT1 with OUT2 held high exactly when the
\* minute displayed before it is even, and OUT2 with OUT1 held high exactly
\* when that minute is odd; with Displayed = 600 and Target = 601 the active
\* line is OUT1.
C4_LineByMinuteBeforePulse ==
    [][emitted' = 1 =>
          /\ RampedLine(wave') = "OUT1" <=> CRem(currentDisplayedTime, 2) = 0
          /\ RampedLine(wave') = "OUT2" <=> CRem(currentDisplayedTime, 2) # 0
          /\ RampedLine(wave') = "OUT1" => HeldLevel(wave', "OUT2") = HIGH
          /\ RampedLine(wave') = "OUT2" => HeldLevel(wave', "OUT1") = HIGH
          /\ (currentDisplayedTime = 600 /\ currentTime = 601)
                => RampedLine(wave') = "OUT1"]_vars
\* the tick boundary after the pulse from 600 to 601
C4_Witness ==
    /\ emitted = 1
    /\ run.stable /\ run.from = 600 /\ run.target = 601 /\ run.pulses = 1
    /\ currentDisplayedTime = 601

\* C5 as stated: after every setCurrentTime() call the target minute lies in
\* [0, 1440) and is the contract's value (0 at 23:59:59).
C5_TargetMinuteInDay ==
    [][(Housekeeping \/ Setup) =>
          /\ currentTime' >= 0 /\ currentTime' < MinutesPerDay
          /\ LET local == ZonedDateTime(utcMinute', second', localZone')
             IN  currentTime' =
                     (local.hour * 60 + local.minute
                        + (IF local.second = 59 THEN 1 ELSE 0)) % MinutesPerDay]_vars

\* C6: a tick that finds the display behind the target emits one pulse and
\* advances the tracker by one; no tick emits more than one pulse; an
\* episode that starts behind a target held stable has emitted one pulse per
\* tick, so that 60 ticks from 600 under target 660 give 60 pulses and 660.
C6_OnePulsePerTick ==
    /\ [](emitted <= 1)
    /\ [][(ConvergenceTick /\ currentDisplayedTime < currentTime) =>
             /\ emitted' = 1
             /\ AdvancedByOne(currentDisplayedTime, currentDisplayedTime')]_vars
    /\ []((run.stable /\ run.from < run.target /\ run.target < MinutesPerDay) =>
             /\ run.pulses = run.ticks
             /\ run.rebases = 0
             /\ currentDisplayedTime = run.from + run.pulses
             /\ currentDisplayedTime <= run.target)
    /\ []((run.stable /\ run.from = 600 /\ run.target = 660 /\ run.ticks = 60) =>
             (run.pulses = 60 /\ currentDisplayedTime = 660))
\* the tick boundary after the 60th tick from 600 under target 660
C6_Witness ==
    /\ run.stable /\ run.from = 600 /\ run.target = 660 /\ run.ticks = 60
    /\ emitted = 1
    /\ currentDisplayedTime = currentTime

\* C7: a tick that finds the display on the target or ahead of it by at
\* most 10 minutes emits no pulse, leaves the tracker alone and the pins
\* low; an episode that starts so stays where it started while real time
\* catches up (10:05 set at 10:00 is still displayed, pulse-free, at 10:05).
C7_IdleWithinTolerance ==
    /\ [][(ConvergenceTick /\ currentTime <= currentDisplayedTime
                           /\ currentDisplayedTime <= currentTime + AheadTolerance) =>
             /\ emitted' = 0 /\ wave' = <<>>
             /\ currentDisplayedTime' = currentDisplayedTime
             /\ OUT1 = LOW /\ OUT2 = LOW /\ OUT1' = LOW /\ OUT2' = LOW]_vars
    /\ []((run.stable /\ run.target <= run.from
                      /\ run.from <= run.target + AheadTolerance) =>
             /\ run.pulses = 0 /\ run.rebases = 0 /\ run.ticks = 0
             /\ currentDisplayedTime = run.from)
\* 10:05, set by the operator at 10:00, is displayed five minutes later
C7_Witness ==
    /\ run.stable /\ run.from = 605 /\ run.target = 605 /\ run.pulses = 0
    /\ overridden
    /\ elapsed = 10
    /\ currentDisplayedTime = 605 /\ currentTime = 605

\* C8: a tick that finds the display more than 10 minutes ahead emits no
\* pulse and takes 1440 off the tracker; under a target held stable the
\* following ticks emit one pulse each, and the display is on the target
\* after 1440 - (D - T) pulses (1240 for D = 800, T = 600).
C8_RebaseThenWalk ==
    /\ [][(ConvergenceTick /\ currentDisplayedTime > currentTime + AheadTolerance) =>
             /\ emitted' = 0
             /\ currentDisplayedTime' = currentDisplayedTime - MinutesPerDay]_vars
    /\ []((run.stable /\ run.from > run.target + AheadTolerance) =>
             /\ run.ticks = 0 => (run.pulses = 0 /\ currentDisplayedTime = run.from)
             /\ run.ticks > 0 =>
                   /\ run.rebases = 1
                   /\ run.pulses = run.ticks - 1
                   /\ currentDisplayedTime = run.from - MinutesPerDay + run.pulses
                   /\ currentDisplayedTime <= run.target
             /\ currentDisplayedTime = run.target =>
                   run.pulses = MinutesPerDay - (run.from - run.target))
    /\ []((run.stable /\ run.from = 800 /\ run.target = 600) =>
             /\ run.ticks = 1 => currentDisplayedTime = -640
             /\ currentDisplayedTime = 600 => run.pulses = 1240)
\* the display back on target 600 after the rebase from 800
C8_Witness ==
    /\ run.stable /\ run.from = 800 /\ run.target = 600 /\ run.rebases = 1
    /\ run.pulses = 1240
    /\ currentDisplayedTime = 600

\* C9: after boot the tracker changes only by one advance() in a tick that
\* emitted exactly one pulse (plus one, with the rollover of advance() at
\* midnight), by minus 1440 in a tick that emitted none, or by POST /set;
\* the time refresh, the persistence snapshot and GET / leave it alone; and
\* a step that emitted a pulse advanced the tracker exactly once.  Under a
\* target inside the day the advance is literally plus one.
C9_TrackerChanges ==
    [][pc = "loop" =>
          /\ currentDisplayedTime' # currentDisplayedTime =>
                \/ /\ ConvergenceTick
                   /\ emitted' = 1
                   /\ AdvancedByOne(currentDisplayedTime, currentDisplayedTime')
                \/ /\ ConvergenceTick
                   /\ emitted' = 0
                   /\ currentDisplayedTime' = currentDisplayedTime - MinutesPerDay
                \/ \E in \in SetInputs \cup DaySetInputs :
                       HandleSet(in[1], in[2], in[3])
          /\ (Housekeeping \/ PersistenceSnapshot \/ HandleRoot) =>
                currentDisplayedTime' = currentDisplayedTime
          /\ emitted' > 0 =>
                /\ emitted' = 1
                /\ AdvancedByOne(currentDisplayedTime, currentDisplayedTime')
                /\ currentTime < MinutesPerDay =>
                       currentDisplayedTime' = currentDisplayedTime + 1]_vars
\* 23:50 set by the operator after midnight, rebased, then advanced once
C9_Witness ==
    /\ run.stable /\ run.from = 1430 /\ run.rebases = 1 /\ run.pulses = 1
    /\ emitted = 1
    /\ currentDisplayedTime = -9

C11_ToleranceAcrossMidnight ==
    [][(/\ ConvergenceTick
        /\ currentDisplayedTime >= 0 /\ currentDisplayedTime < currentTime
        /\ currentTime < MinutesPerDay
        /\ (currentDisplayedTime - currentTime) % MinutesPerDay >= 1
        /\ (currentDisplayedTime - currentTime) % MinutesPerDay <= AheadTolerance)
          => (emitted' = 0 /\ currentDisplayedTime' = currentDisplayedTime)]_vars

\* C12 as stated: after POST /set with any integer hour and minute the
\* tracker is (hour * 60 + minute) mod 1440 and lies in [0, 1440).
C12_OverrideNormalised ==
    [][\A in \in FormInputs :
          HandleSet(in[1], in[2], in[3]) =>
              /\ currentDisplayedTime' = (in[1] * 60 + in[2]) % MinutesPerDay
              /\ currentDisplayedTime' >= 0
              /\ currentDisplayedTime' < MinutesPerDay]_vars

\* C13: GET / served after a POST /set with hour h in 0..23 and minute m in
\* 0..59 and before the next pulse renders h and m, also when a rebase tick
\* has run in between.  (run.from is h * 60 + m while the episode the
\* override started is tracked and no pulse has come.)
C13_OverrideRoundTrip ==
    (/\ response.code = 200
     /\ overridden /\ run.stable /\ run.pulses = 0
     /\ run.from >= 0 /\ run.from < MinutesPerDay)
        => /\ response.hour = run.from \div 60
           /\ response.minute = run.from % 60
           /\ currentDisplayedTime = run.from - run.rebases * MinutesPerDay
\* GET / after POST /set 23:50 and the rebase tick that followed it
C13_Witness ==
    /\ response.code = 200
    /\ overridden /\ run.stable /\ run.from = 1430 /\ run.rebases = 1
    /\ currentDisplayedTime = -10
    /\ response.hour = 23 /\ response.minute = 50

\* C14 as stated, its conclusion: the active zone is a valid zone in every
\* state after boot.
C14_ActiveZoneValid ==
    pc = "loop" => ~isError(localZone)

\* C16 as stated: a tick that runs while the time source adapter has no
\* valid reading (the zoned date-time it reads is an error value) emits no
\* pulse and leaves the tracker alone.
C16_NoPulseWithoutReading ==
    [][(ConvergenceTick /\ isError(localZone))
          => (emitted' = 0 /\ currentDisplayedTime' = currentDisplayedTime)]_vars

\* C20 as stated: a tick emits no pulse when the display shows the target
\* minute, that is when the tracker is congruent to the target modulo 1440.
C20_NoPulseOnTarget ==
    [][(ConvergenceTick /\ (currentDisplayedTime - currentTime) % MinutesPerDay = 0)
          => emitted' = 0]_vars

\* C19 as stated: runEvery<T> runs its task exactly when T ms have passed
\* since the task last ran, at every value of the millisecond counter: not
\* earlier (no burst near the wrap) and not only once the counter has come
\* round again (no stall).
C19_PeriodAcrossWrap ==
    pc = "loop" =>
        (runEveryDue(millis, lastMillis, RunPeriod) <=> sinceFired >= RunPeriod)

\* C15: POST /set never runs between the start of a pulse and the tracker
\* increment that ends it; through a pulse the tracker is the one the pulse
\* started with, so that all its pin writes ramp one line; and a pulse
\* starts only with the previous one over (both pins low again, no pin
\* write of advance() pending).
C15_PulsesSerialized ==
    /\ [][(\E in \in LoopInputs : HandleSet(in[1], in[2], in[3]))
             => (at = "handleClient" /\ step = 0 /\ OUT1 = LOW /\ OUT2 = LOW)]_vars
    /\ [](at = "advance" =>
             /\ step <= Len(STEPS) + 1
             /\ wave = SubSeq(PulseWave(currentDisplayedTime), 1, step))
    /\ [](at # "advance" => (step = 0 /\ OUT1 = LOW /\ OUT2 = LOW))
    /\ [][(at # "advance" /\ at' = "advance")
             => (at = "tick" /\ step = 0 /\ OUT1 = LOW /\ OUT2 = LOW)]_vars
\* the fifth pin write of the first pulse after POST /set 09:58 at 10:00
C15_Witness ==
    /\ at = "advance" /\ step = 5
    /\ overridden
    /\ currentDisplayedTime = 598 /\ currentTime = 600
    /\ OUT1 = 255 - STEPS[5] /\ OUT2 = HIGH

\* C17: setupSntp() returns only with a valid time; setCurrentTime() and
\* the tick run only with a valid time; a pass of the wait loop that finds
\* no time once 5 s have passed restarts the firmware; and the wait ends
\* (by a time or by the restart) within 5 s and one pass of the loop.
C17_BootWaitsForTime ==
    /\ [][(pc = "sntp" /\ pc' = "loop") => (timeValid /\ timeValid')]_vars
    /\ [][(currentTime' # currentTime \/ ConvergenceTick)
             => (pc' = "boot" \/ timeValid)]_vars
    /\ [](pc = "loop" => timeValid)
    /\ [][(SntpPass /\ ~timeValid /\ sntpWaited >= REBOOT_TIMEOUT_MILLIS)
             => (pc' = "boot" /\ ~timeValid')]_vars
    /\ [](pc = "sntp" => \E d \in SntpDelays : sntpWaited < REBOOT_TIMEOUT_MILLIS + d)
    /\ (pc = "sntp" ~> pc # "sntp")
\* the wait loop after 5 s without a time, about to restart the firmware
C17_Witness ==
    /\ pc = "sntp"
    /\ ~timeValid
    /\ sntpWaited >= REBOOT_TIMEOUT_MILLIS

\* C18: readFromEEProm() activates the stored zone id when the stored
\* record has the marker and the id resolves, and otherwise activates and
\* stores Europe/Berlin under a valid marker; the stored record is the one
\* the latest successful POST /set persisted, whatever came after it
\* (snapshots, a POST /set whose zone does not resolve, restarts), so that
\* after a restart the active zone is the zone of that request.
C18_ZoneAcrossRestart ==
    /\ [][SetupBegin =>
             IF /\ eeprom.flash.magicNumber = EEPROM_MAGIC_NUMBER
                /\ ~isError(createForZoneId(eeprom.flash.zoneId))
             THEN /\ localZone' = createForZoneId(eeprom.flash.zoneId)
                  /\ globalStats'.zoneId = eeprom.flash.zoneId
                  /\ eeprom'.flash.zoneId = eeprom.flash.zoneId
                  /\ eeprom'.flash.magicNumber = EEPROM_MAGIC_NUMBER
             ELSE /\ localZone' = createForZoneId(kZoneIdEurope_Berlin)
                  /\ globalStats'.zoneId = kZoneIdEurope_Berlin
                  /\ eeprom'.flash.zoneId = kZoneIdEurope_Berlin
                  /\ eeprom'.flash.magicNumber = EEPROM_MAGIC_NUMBER]_vars
    /\ [](lastSetZone # 0 =>
             /\ eeprom.flash.zoneId = lastSetZone
             /\ eeprom.flash.magicNumber = EEPROM_MAGIC_NUMBER)
    /\ []((pc = "sntp" /\ lastSetZone # 0) =>
             /\ localZone = createForZoneId(lastSetZone)
             /\ ~isError(localZone)
             /\ globalStats.zoneId = lastSetZone)
\* the firmware has restarted after a POST /set with Helsinki and has read
\* the record back
C18_Witness ==
    /\ pc = "sntp"
    /\ lastSetZone = 2
    /\ localZone = 2
    /\ globalStats.zoneId = 2
    /\ eeprom.flash.zoneId = 2

\* C21: with form input in range the tracker stays within -1440 < D <= 1440
\* in every state; a tick rebases only a positive tracker, by exactly 1440
\* and so to a value of at most 0; a pulse adds exactly one (less 1440 at
\* the rollover); and no tick rebases a tracker that was rebased with
\* neither a pulse nor a POST /set since.
C21_TrackerBounded ==
    /\ [](/\ currentDisplayedTime > -MinutesPerDay
          /\ currentDisplayedTime <= MinutesPerDay)
    /\ [][(ConvergenceTick /\ Decide(currentDisplayedTime, currentTime) = "rebase") =>
             /\ currentDisplayedTime > 0
             /\ currentDisplayedTime' = currentDisplayedTime - MinutesPerDay
             /\ currentDisplayedTime' <= 0
             /\ ~rebased
             /\ rebased']_vars
    /\ [][(ConvergenceTick /\ emitted' > 0) =>
             /\ AdvancedByOne(currentDisplayedTime, currentDisplayedTime')
             /\ ~rebased']_vars
    /\ [](rebased => currentDisplayedTime <= 0)
\* the tracker that setup() copied from the reading 1440 at 23:59:59 has
\* been rebased to 0 by the first tick after midnight
C21_Witness ==
    /\ pc = "loop"
    /\ rebased
    /\ run.stable /\ run.from = MinutesPerDay /\ run.rebases = 1
    /\ currentDisplayedTime = 0

====
